---------------------------- MODULE Spec2Model ----------------------------
(***************************************************************************)
(* Model of CompletionManager._stream_sentences_from_chunks               *)
(* (src/completion_manager.py), the streaming response segmenter.         *)
(*                                                                         *)
(* A Python str is a sequence of one-character strings.  The generator is *)
(* a state machine: its local variables are the state, pc is the position *)
(* of the generator in its body, and events is the sequence of tuples it  *)
(* has yielded so far.                                                     *)
(***************************************************************************)
EXTENDS Integers, Sequences, FiniteSets, TLC

\* ------------------------------------------------------------- bounds ---
\* Number of tokens (characters or whole delimiters) an input is built of.
MaxTokens == 4
\* Number of characters outside the markers in an input of the marker form.
MaxPlain == 3
\* Number of tokens of an input in the runs checked for termination.
MaxFairTokens == 3
\* Number of presses of the record hotkey in a run of the Recorder.
MaxPresses == 3

\* ---------------------------------------------------------- characters ---
NL == "\n"
\* str.strip() and the regex class \s agree on what a whitespace character is.
Whitespace == {" ", "\t", NL, "\r"}
\* The character class [.!?] of sentence_endings.
SentencePunct == {".", "!", "?"}
\* The backquote character (the lexer of TLA+ has no string for it).
Backquote == "BQ"
\* The literal of three backquotes of lines 125-133.
Fence == <<Backquote, Backquote, Backquote>>
\* clip_start_marker / clip_end_marker: literal substrings passed by the
\* caller.  The model passes three-character markers that, like the defaults
\* "-CLIPSTART-" and "-CLIPEND-", begin and end with the same character.
clip_start_marker == <<"-", "S", "-">>
clip_end_marker == <<"-", "E", "-">>
\* The fixed sentence of line 134.
Confirmation ==
    <<"C","o","d","e"," ","s","a","v","e","d"," ","t","o"," ","t","h","e"," ",
      "c","l","i","p","b","o","a","r","d",".">>

\* ------------------------------------------------------ str operations ---
SetMin(S) == CHOOSE x \in S : \A y \in S : x <= y
SetMax(S) == CHOOSE x \in S : \A y \in S : x >= y

\* s[i:] and s[:i] with Python 0-based slice bounds.
SliceFrom(s, i) == SubSeq(s, i + 1, Len(s))
SliceTo(s, i) == SubSeq(s, 1, i)

\* str.strip(): drop leading and trailing whitespace.
Strip(s) ==
    LET keep == {i \in 1..Len(s) : s[i] \notin Whitespace}
    IN  IF keep = {} THEN <<>> ELSE SubSeq(s, SetMin(keep), SetMax(keep))

\* str.find(d): 0-based index of the first occurrence of d in s, or -1.
Find(s, d) ==
    LET hits == {i \in 0..(Len(s) - Len(d)) : SubSeq(s, i + 1, i + Len(d)) = d}
    IN  IF hits = {} THEN -1 ELSE SetMin(hits)

\* `d in s`
Contains(s, d) == Find(s, d) >= 0

\* s.partition(d) when d occurs in s: the text before and after the first d.
PartitionPre(s, d) == SliceTo(s, Find(s, d))
PartitionPost(s, d) == SliceFrom(s, Find(s, d) + Len(d))

\* sentence_endings.search(s).end(), or -1 when there is no match.
\* The pattern is (?<=[.!?])\s+|(?<=\n): the leftmost position p at which
\* either alternative matches; the first alternative is tried first and \s+
\* is greedy, the second alternative is empty.
WsRunEnd(s, p) ==
    SetMin({q \in (p + 1)..Len(s) : q = Len(s) \/ s[q + 1] \notin Whitespace})
AltPunct(s, p) == p >= 1 /\ p < Len(s) /\ s[p] \in SentencePunct /\ s[p + 1] \in Whitespace
AltNewline(s, p) == p >= 1 /\ s[p] = NL
\* Mutant of MatchEnd: the pattern lacks its lookbehind, \s+|(?<=\n); any run
\* of whitespace ends a sentence.
MatchEnd_AnyWhitespace(s) ==
    LET starts == {p \in 0..Len(s) : (p < Len(s) /\ s[p + 1] \in Whitespace) \/ AltNewline(s, p)}
    IN  IF starts = {} THEN -1
        ELSE LET p == SetMin(starts)
             IN  IF p < Len(s) /\ s[p + 1] \in Whitespace THEN WsRunEnd(s, p) ELSE p

MatchEnd(s) ==
    LET starts == {p \in 0..Len(s) : AltPunct(s, p) \/ AltNewline(s, p)}
    IN  IF starts = {} THEN -1
        ELSE LET p == SetMin(starts)
             IN  IF AltPunct(s, p) THEN WsRunEnd(s, p) ELSE p

\* ------------------------------------------------------------- events ---
Sentence(t) == [kind |-> "sentence", text |-> t]
ClipboardText(t) == [kind |-> "clipboard_text", text |-> t]
FullResponse(t) == [kind |-> "full_response", text |-> t]


\* ------------------------------------------------------- the generator ---
VARIABLES
    input,          \* the whole text chunks_stream delivers, chunk by chunk
    rest,           \* the part of input chunks_stream has not delivered yet
    buffer,         \* line 100
    full_response,  \* line 101
    in_marker,      \* line 103
    in_backticks,   \* line 104
    events,         \* the tuples yielded so far, in order
    trace,          \* history: for each yielded tuple, the yield statement that
                    \* produced it and the place in the input of the text it
                    \* was cut from ([site, at, len], at 0-based)
    dropped,        \* history: the 1-based input positions of the marker
                    \* strings that partition() removed from buffer
    pc,             \* position of the generator in its body
    failed,         \* whether chunks_stream raised
    \* Recorder (src/main.py)
    is_recording,             \* line 17
    waiting_for_tts,          \* line 23
    clipboard_text,           \* line 18: whether a clipboard text is held
    recording_timeout_timer,  \* line 22: 0 (None) or the recording the timer
                              \* was made for
    timer,                    \* line 27: 0 (None) or the press the timer was
                              \* made at
    timeout_timers,           \* state of the Timer made by each start_recording
    hotkey_timers,            \* state of the Timer made at each press
    tpc,                      \* position of each thread in Recorder's methods
    rec_of,                   \* the recording a thread in start_recording started
    presses,                  \* presses of the record hotkey handled so far
    taps,                     \* presses in the last 0.2 s (last_press_time)
    gestures,                 \* history: gestures begun so far
    gesture_of,               \* history: the gesture each press belongs to
    recordings,               \* history: recordings started so far
    stop_log,                 \* history: each run of the guarded body of
                              \* stop_recording, [thread, recording]
    hh_runs                   \* history: calls of handle_hotkey per gesture

segmenterVars == <<input, rest, buffer, full_response, in_marker, in_backticks,
                   events, trace, dropped, pc, failed>>
recorderVars == <<is_recording, waiting_for_tts, clipboard_text,
                  recording_timeout_timer, timer, timeout_timers, hotkey_timers,
                  tpc, rec_of, presses, taps, gestures, gesture_of, recordings,
                  stop_log, hh_runs>>
vars == <<segmenterVars, recorderVars>>

\* The local variables of the generator as one record.
Cur ==
    [buffer |-> buffer, full_response |-> full_response, in_marker |-> in_marker,
     in_backticks |-> in_backticks, events |-> events, trace |-> trace,
     dropped |-> dropped]

Store(st) ==
    /\ buffer' = st.buffer
    /\ full_response' = st.full_response
    /\ in_marker' = st.in_marker
    /\ in_backticks' = st.in_backticks
    /\ events' = st.events
    /\ trace' = st.trace
    /\ dropped' = st.dropped

\* Lines 100-104.
Fresh ==
    [buffer |-> <<>>, full_response |-> <<>>, in_marker |-> FALSE,
     in_backticks |-> FALSE, events |-> <<>>, trace |-> <<>>, dropped |-> {}]

\* buffer is the tail of full_response; this is where it starts (0-based).
Off(st) == Len(st.full_response) - Len(st.buffer)

\* yield ev, at the yield statement `site`, for the len characters at `at`.
Emit(st, ev, site, at, len) ==
    [st EXCEPT !.events = Append(@, ev),
               !.trace = Append(@, [site |-> site, at |-> at, len |-> len])]

\* Mutant of Feed: line 108 assigns instead of appending.
Feed_Overwrite(st, chunk) ==
    [st EXCEPT !.buffer = @ \o chunk, !.full_response = chunk]

\* Lines 107-108.
Feed(st, chunk) ==
    [st EXCEPT !.buffer = @ \o chunk, !.full_response = @ \o chunk]

\* Lines 110-116.
MarkerStartStep(st) ==
    IF ~st.in_backticks /\ Contains(st.buffer, clip_start_marker) /\ ~st.in_marker
    THEN LET pre == PartitionPre(st.buffer, clip_start_marker)
             post == PartitionPost(st.buffer, clip_start_marker)
             at == Off(st)
             st1 == IF Strip(pre) # <<>>
                    THEN Emit(st, Sentence(Strip(pre)), "pre_marker", at, Len(pre))
                    ELSE st
         IN  [st1 EXCEPT !.buffer = post, !.in_marker = TRUE,
                         !.dropped = @ \cup ((at + Len(pre) + 1)..(at + Len(pre) + Len(clip_start_marker)))]
    ELSE st

\* Mutant of MarkerEndStep: the marked section is yielded only if non-blank,
\* as the text before a marker is.
MarkerEndStep_SkipBlank(st) ==
    IF ~st.in_backticks /\ Contains(st.buffer, clip_end_marker) /\ st.in_marker
    THEN LET marked_section == PartitionPre(st.buffer, clip_end_marker)
             post_end == PartitionPost(st.buffer, clip_end_marker)
             at == Off(st)
             st1 == IF Strip(marked_section) # <<>>
                    THEN Emit(st, ClipboardText(Strip(marked_section)), "marker_close",
                              at, Len(marked_section))
                    ELSE st
         IN  [st1 EXCEPT !.buffer = post_end, !.in_marker = FALSE,
                         !.dropped = @ \cup ((at + Len(marked_section) + 1)..(at + Len(marked_section) + Len(clip_end_marker)))]
    ELSE st

\* Lines 110, 118-122.
MarkerEndStep(st) ==
    IF ~st.in_backticks /\ Contains(st.buffer, clip_end_marker) /\ st.in_marker
    THEN LET marked_section == PartitionPre(st.buffer, clip_end_marker)
             post_end == PartitionPost(st.buffer, clip_end_marker)
             at == Off(st)
             st1 == Emit(st, ClipboardText(Strip(marked_section)), "marker_close",
                         at, Len(marked_section))
         IN  [st1 EXCEPT !.buffer = post_end, !.in_marker = FALSE,
                         !.dropped = @ \cup ((at + Len(marked_section) + 1)..(at + Len(marked_section) + Len(clip_end_marker)))]
    ELSE st

\* Mutant of FenceStep: the test of line 124 is missing.
FenceStep_NoMarkerGuard(st) ==
    IF ~st.in_backticks /\ Contains(st.buffer, Fence)
    THEN LET pre == PartitionPre(st.buffer, Fence)
             post == PartitionPost(st.buffer, Fence)
             st1 == IF Strip(pre) # <<>>
                    THEN Emit(st, Sentence(Strip(pre)), "pre_fence", Off(st), Len(pre))
                    ELSE st
         IN  [st1 EXCEPT !.buffer = post, !.in_backticks = TRUE]
    ELSE IF st.in_backticks /\ Contains(st.buffer, Fence)
    THEN LET marked_section == PartitionPre(st.buffer, Fence)
             post_end == PartitionPost(st.buffer, Fence)
             at == Off(st)
             st1 == Emit(st, ClipboardText(Fence \o Strip(marked_section) \o Fence),
                         "fence_close", at, Len(marked_section))
             st2 == Emit(st1, Sentence(Confirmation), "confirm",
                         at + Len(marked_section), 0)
         IN  [st2 EXCEPT !.buffer = post_end, !.in_backticks = FALSE]
    ELSE st

\* Mutant of FenceStep: lines 133 and 134 are swapped, the confirmation is
\* yielded before the block it confirms.
FenceStep_ConfirmFirst(st) ==
    IF ~st.in_marker
    THEN IF ~st.in_backticks /\ Contains(st.buffer, Fence)
         THEN LET pre == PartitionPre(st.buffer, Fence)
                  post == PartitionPost(st.buffer, Fence)
                  st1 == IF Strip(pre) # <<>>
                         THEN Emit(st, Sentence(Strip(pre)), "pre_fence", Off(st), Len(pre))
                         ELSE st
              IN  [st1 EXCEPT !.buffer = post, !.in_backticks = TRUE]
         ELSE IF st.in_backticks /\ Contains(st.buffer, Fence)
         THEN LET marked_section == PartitionPre(st.buffer, Fence)
                  post_end == PartitionPost(st.buffer, Fence)
                  at == Off(st)
                  st1 == Emit(st, Sentence(Confirmation), "confirm",
                              at + Len(marked_section), 0)
                  st2 == Emit(st1, ClipboardText(Fence \o Strip(marked_section) \o Fence),
                              "fence_close", at, Len(marked_section))
              IN  [st2 EXCEPT !.buffer = post_end, !.in_backticks = FALSE]
         ELSE st
    ELSE st

\* Lines 124-136.
FenceStep(st) ==
    IF ~st.in_marker
    THEN IF ~st.in_backticks /\ Contains(st.buffer, Fence)
         THEN LET pre == PartitionPre(st.buffer, Fence)
                  post == PartitionPost(st.buffer, Fence)
                  st1 == IF Strip(pre) # <<>>
                         THEN Emit(st, Sentence(Strip(pre)), "pre_fence", Off(st), Len(pre))
                         ELSE st
              IN  [st1 EXCEPT !.buffer = post, !.in_backticks = TRUE]
         ELSE IF st.in_backticks /\ Contains(st.buffer, Fence)
         THEN LET marked_section == PartitionPre(st.buffer, Fence)
                  post_end == PartitionPost(st.buffer, Fence)
                  at == Off(st)
                  st1 == Emit(st, ClipboardText(Fence \o Strip(marked_section) \o Fence),
                              "fence_close", at, Len(marked_section))
                  st2 == Emit(st1, Sentence(Confirmation), "confirm",
                              at + Len(marked_section), 0)
              IN  [st2 EXCEPT !.buffer = post_end, !.in_backticks = FALSE]
         ELSE st
    ELSE st

\* Line 138 and the test of line 141: the loop has another sentence to cut.
HasSentence(st) == ~st.in_marker /\ ~st.in_backticks /\ MatchEnd(st.buffer) >= 0

\* Mutant of ExtractOne: the rest of buffer starts one character too late
\* (buffer[match.end() + 1:]).
ExtractOne_OffByOne(st) ==
    LET e == MatchEnd(st.buffer)
        sentence == SliceTo(st.buffer, e)
        st1 == IF Strip(sentence) # <<>>
               THEN Emit(st, Sentence(Strip(sentence)), "extract", Off(st), e)
               ELSE st
    IN  [st1 EXCEPT !.buffer = SliceFrom(st.buffer, e + 1)]

\* Mutant of ExtractOne: the test of line 144 is missing.
ExtractOne_KeepBlank(st) ==
    LET e == MatchEnd(st.buffer)
        sentence == SliceTo(st.buffer, e)
        st1 == Emit(st, Sentence(Strip(sentence)), "extract", Off(st), e)
    IN  [st1 EXCEPT !.buffer = SliceFrom(st.buffer, e)]

\* Mutant of ExtractOne: line 143 is missing, the sentence is yielded but
\* stays in buffer.
ExtractOne_NoCut(st) ==
    LET e == MatchEnd(st.buffer)
        sentence == SliceTo(st.buffer, e)
    IN  IF Strip(sentence) # <<>>
        THEN Emit(st, Sentence(Strip(sentence)), "extract", Off(st), e)
        ELSE st

\* Lines 142-145: one iteration of the loop that found a match.
ExtractOne(st) ==
    LET e == MatchEnd(st.buffer)
        sentence == SliceTo(st.buffer, e)
        st1 == IF Strip(sentence) # <<>>
               THEN Emit(st, Sentence(Strip(sentence)), "extract", Off(st), e)
               ELSE st
    IN  [st1 EXCEPT !.buffer = SliceFrom(st.buffer, e)]

\* Lines 138-147: the whole loop.
RECURSIVE ExtractLoop(_)
ExtractLoop(st) == IF HasSentence(st) THEN ExtractLoop(ExtractOne(st)) ELSE st

\* Lines 107-147: the body of the for loop for one chunk.
ProcessChunk(st, chunk) ==
    ExtractLoop(FenceStep(MarkerEndStep(MarkerStartStep(Feed(st, chunk)))))

\* Mutant of FlushStep: the open fence is closed when it is flushed.
FlushStep_ClosedFence(st) ==
    IF Strip(st.buffer) # <<>>
    THEN IF st.in_backticks
         THEN Emit(st, ClipboardText(Fence \o Strip(st.buffer) \o Fence), "flush",
                   Off(st), Len(st.buffer))
         ELSE IF ~st.in_marker
         THEN Emit(st, Sentence(Strip(st.buffer)), "flush", Off(st), Len(st.buffer))
         ELSE Emit(st, ClipboardText(Strip(st.buffer)), "flush", Off(st), Len(st.buffer))
    ELSE st

\* Lines 149-155.
FlushStep(st) ==
    IF Strip(st.buffer) # <<>>
    THEN IF st.in_backticks
         THEN Emit(st, ClipboardText(Fence \o Strip(st.buffer)), "flush", Off(st), Len(st.buffer))
         ELSE IF ~st.in_marker
         THEN Emit(st, Sentence(Strip(st.buffer)), "flush", Off(st), Len(st.buffer))
         ELSE Emit(st, ClipboardText(Strip(st.buffer)), "flush", Off(st), Len(st.buffer))
    ELSE st

\* Mutant of FullStep: full_response is yielded as accumulated, not trimmed.
FullStep_Untrimmed(st) ==
    IF Strip(st.full_response) # <<>>
    THEN Emit(st, FullResponse(st.full_response), "full", 0, Len(st.full_response))
    ELSE st

\* Lines 157-158.
FullStep(st) ==
    IF Strip(st.full_response) # <<>>
    THEN Emit(st, FullResponse(Strip(st.full_response)), "full", 0, Len(st.full_response))
    ELSE st

\* The events of a run over the given chunks (all of lines 100-158).
RECURSIVE RunChunks(_, _)
RunChunks(st, chunks) ==
    IF chunks = <<>> THEN FullStep(FlushStep(st))
    ELSE RunChunks(ProcessChunk(st, Head(chunks)), Tail(chunks))

\* ------------------------------------------------------------- inputs ---
\* The text of a stream is a sequence of tokens: a letter, a blank, a full
\* stop, a newline, a fence or a marker string.  chunks_stream cuts it into
\* chunks at any character.
Letter == <<"a">>
Tokens ==
    {Letter, <<" ">>, <<".">>, <<NL>>, Fence, clip_start_marker, clip_end_marker}

RECURSIVE Flatten(_)
Flatten(ts) == IF ts = <<>> THEN <<>> ELSE Head(ts) \o Flatten(Tail(ts))

InputsUpTo(n) == {Flatten(ts) : ts \in UNION {[1..k -> Tokens] : k \in 0..n}}
Inputs == InputsUpTo(MaxTokens)

\* Inputs of the marker form: pre + clip_start_marker + payload +
\* clip_end_marker + post, where pre, payload and post are texts without
\* delimiters of MaxPlain characters in all.
PlainChars == {"a", " ", ".", NL}
PlainTexts(n) == UNION {[1..k -> PlainChars] : k \in 0..n}
MarkerInputs ==
    UNION {UNION {{pre \o clip_start_marker \o payload \o clip_end_marker \o post :
                      post \in PlainTexts(MaxPlain - Len(pre) - Len(payload))} :
                  payload \in PlainTexts(MaxPlain - Len(pre))} :
           pre \in PlainTexts(MaxPlain)}

\* ================================================================ Recorder
\* Model of Recorder (src/main.py): the hotkey callbacks, the 0.2 s hotkey
\* timer and the recording-timeout timer, each timer running its function
\* on a thread of its own.

\* Threads: the keyboard listener, which runs the hotkey callbacks one at a
\* time; the thread of the threading.Timer made by the p-th press (line 170);
\* the thread of the threading.Timer made by the r-th start_recording
\* (line 58).
KB == <<"kb", 0>>
HotkeyThread(p) == <<"hotkey", p>>
TimeoutThread(r) == <<"timeout", r>>
Threads == {KB} \cup {HotkeyThread(p) : p \in 1..MaxPresses}
                \cup {TimeoutThread(r) : r \in 1..MaxPresses}

\* States of a threading.Timer: not made yet, started and waiting, cancelled
\* while waiting, running its function, function returned.
TimerStates == {"unborn", "armed", "cancelled", "running", "finished"}
\* Timer.is_alive(): the thread is waiting or running the function.
is_alive(s) == s \in {"armed", "running"}
\* Timer.cancel(): stops a waiting timer; no effect once the function runs.
cancel(timers, id) ==
    IF id # 0 /\ timers[id] = "armed" THEN [timers EXCEPT ![id] = "cancelled"]
    ELSE timers

RecorderInit ==
    /\ is_recording = FALSE
    /\ waiting_for_tts = FALSE
    /\ clipboard_text = FALSE
    /\ recording_timeout_timer = 0
    /\ timer = 0
    /\ timeout_timers = [r \in 1..MaxPresses |-> "unborn"]
    /\ hotkey_timers = [p \in 1..MaxPresses |-> "unborn"]
    /\ tpc = [t \in Threads |-> "idle"]
    /\ rec_of = [t \in Threads |-> 0]
    /\ presses = 0
    /\ taps = 0
    /\ gestures = 0
    /\ gesture_of = [p \in 1..MaxPresses |-> 0]
    /\ recordings = 0
    /\ stop_log = <<>>
    /\ hh_runs = [g \in 1..MaxPresses |-> 0]


\* ------------------------------------------------------------ actions ---
InitWith(texts) ==
    /\ input \in texts
    /\ rest = input
    /\ buffer = Fresh.buffer
    /\ full_response = Fresh.full_response
    /\ in_marker = Fresh.in_marker
    /\ in_backticks = Fresh.in_backticks
    /\ events = Fresh.events
    /\ trace = Fresh.trace
    /\ dropped = Fresh.dropped
    /\ pc = "next"
    /\ failed = FALSE
    /\ RecorderInit

Init == InitWith(Inputs)
MarkerInit == InitWith(MarkerInputs)

\* Line 106, lines 107-108: chunks_stream delivers the next chunk, any
\* non-empty prefix of the text still to come.
Receive ==
    /\ pc = "next"
    /\ rest # <<>>
    /\ \E k \in 1..Len(rest) :
          /\ Store(Feed(Cur, SliceTo(rest, k)))
          /\ rest' = SliceFrom(rest, k)
    /\ pc' = "marker_start"
    /\ UNCHANGED recorderVars
    /\ UNCHANGED <<input, failed>>

\* Line 106: chunks_stream is exhausted, the for loop ends.
Exhausted ==
    /\ pc = "next"
    /\ rest = <<>>
    /\ pc' = "flush"
    /\ UNCHANGED recorderVars
    /\ UNCHANGED <<input, rest, buffer, full_response, in_marker, in_backticks, events,
                   trace, dropped, failed>>

\* Mutant of SourceFails: the loop is wrapped in try/finally-like handling,
\* the flush of lines 149-158 runs after the source raised.
SourceFails_Caught ==
    /\ pc = "next"
    /\ pc' = "flush"
    /\ failed' = TRUE
    /\ UNCHANGED recorderVars
    /\ UNCHANGED <<input, rest, buffer, full_response, in_marker, in_backticks, events,
                   trace, dropped>>

\* Line 106: chunks_stream raises instead of delivering.  Nothing in lines
\* 100-158 catches it: the exception leaves the generator, which is finished.
SourceFails ==
    /\ pc = "next"
    /\ pc' = "raised"
    /\ failed' = TRUE
    /\ UNCHANGED recorderVars
    /\ UNCHANGED <<input, rest, buffer, full_response, in_marker, in_backticks, events,
                   trace, dropped>>

\* Lines 110-116.
MarkerStart ==
    /\ pc = "marker_start"
    /\ Store(MarkerStartStep(Cur))
    /\ pc' = "marker_end"
    /\ UNCHANGED recorderVars
    /\ UNCHANGED <<input, rest, failed>>

\* Lines 118-122.
MarkerEnd ==
    /\ pc = "marker_end"
    /\ Store(MarkerEndStep(Cur))
    /\ pc' = "fence"
    /\ UNCHANGED recorderVars
    /\ UNCHANGED <<input, rest, failed>>

\* Lines 124-136.
FenceDetect ==
    /\ pc = "fence"
    /\ Store(FenceStep(Cur))
    /\ pc' = "extract"
    /\ UNCHANGED recorderVars
    /\ UNCHANGED <<input, rest, failed>>

\* Mutant of Extract: line 139 is an if, not a loop; at most one sentence is
\* cut per chunk.
Extract_Once ==
    /\ pc = "extract"
    /\ IF HasSentence(Cur) THEN Store(ExtractOne(Cur)) ELSE Store(Cur)
    /\ pc' = "next"
    /\ UNCHANGED recorderVars
    /\ UNCHANGED <<input, rest, failed>>

\* Lines 138-147: one turn of the while loop, or leaving it for line 106.
Extract ==
    /\ pc = "extract"
    /\ IF HasSentence(Cur)
       THEN Store(ExtractOne(Cur)) /\ pc' = "extract"
       ELSE Store(Cur) /\ pc' = "next"
    /\ UNCHANGED recorderVars
    /\ UNCHANGED <<input, rest, failed>>

\* Lines 149-155.
Flush ==
    /\ pc = "flush"
    /\ Store(FlushStep(Cur))
    /\ pc' = "full"
    /\ UNCHANGED recorderVars
    /\ UNCHANGED <<input, rest, failed>>

\* Lines 157-158, and the end of the generator.
Full ==
    /\ pc = "full"
    /\ Store(FullStep(Cur))
    /\ pc' = "done"
    /\ UNCHANGED recorderVars
    /\ UNCHANGED <<input, rest, failed>>

Next ==
    \/ Receive
    \/ Exhausted
    \/ SourceFails
    \/ MarkerStart
    \/ MarkerEnd
    \/ FenceDetect
    \/ Extract
    \/ Flush
    \/ Full

\* Runs over every chunking of every input built of at most MaxTokens tokens.
Spec == Init /\ [][Next]_vars
\* Runs over every chunking of every input of the marker form.
MarkerSpec == MarkerInit /\ [][Next]_vars

TypeOK ==
    /\ pc \in {"next", "marker_start", "marker_end", "fence", "extract", "flush",
               "full", "done", "raised"}
    /\ in_marker \in BOOLEAN /\ in_backticks \in BOOLEAN /\ failed \in BOOLEAN
    /\ Len(trace) = Len(events)
    /\ input = full_response \o rest

\* The function of thread t returns: a timer thread ends.
Returned(t, kind, timers) ==
    IF t[1] = kind THEN [timers EXCEPT ![t[2]] = "finished"] ELSE timers
Return(t) ==
    /\ tpc' = [tpc EXCEPT ![t] = "idle"]
    /\ hotkey_timers' = Returned(t, "hotkey", hotkey_timers)
    /\ timeout_timers' = Returned(t, "timeout", timeout_timers)

\* Lines 153-171, a press of the record hotkey handled by the keyboard
\* listener: was_double_tapped (lines 34-47) is true when the press before
\* was less than 0.2 s ago; then the pending hotkey timer is cancelled and
\* handle_hotkey is called at once, or a timer of 0.2 s is started.
handle_hotkey_wrapper ==
    /\ tpc[KB] = "idle"
    /\ presses < MaxPresses
    /\ taps < 2
    /\ LET p == presses + 1
           g == IF taps = 0 THEN gestures + 1 ELSE gestures
           use_clipboard == taps > 0
       IN  /\ presses' = p
           /\ taps' = taps + 1
           /\ gestures' = g
           /\ gesture_of' = [gesture_of EXCEPT ![p] = g]
           /\ \E read_ok \in BOOLEAN :
                  clipboard_text' = IF use_clipboard /\ read_ok THEN TRUE
                                    ELSE clipboard_text
           /\ IF timer # 0
              THEN /\ hotkey_timers' = cancel(hotkey_timers, timer)
                   /\ timer' = 0
                   /\ tpc' = [tpc EXCEPT ![KB] = "handle_hotkey"]
                   /\ hh_runs' = [hh_runs EXCEPT ![g] = @ + 1]
              ELSE /\ hotkey_timers' = [hotkey_timers EXCEPT ![p] = "armed"]
                   /\ timer' = p
                   /\ UNCHANGED <<tpc, hh_runs>>
    /\ UNCHANGED <<is_recording, waiting_for_tts, recording_timeout_timer,
                   timeout_timers, rec_of, recordings, stop_log>>
    /\ UNCHANGED segmenterVars

\* 0.2 s pass after the last press: the threshold of was_double_tapped is
\* over, and the hotkey timer, if it still waits, runs handle_hotkey.
HotkeyTimerElapses ==
    /\ taps > 0
    /\ taps' = 0
    /\ IF timer # 0 /\ hotkey_timers[timer] = "armed"
       THEN /\ hotkey_timers' = [hotkey_timers EXCEPT ![timer] = "running"]
            /\ tpc' = [tpc EXCEPT ![HotkeyThread(timer)] = "handle_hotkey"]
            /\ hh_runs' = [hh_runs EXCEPT ![gesture_of[timer]] = @ + 1]
       ELSE UNCHANGED <<hotkey_timers, tpc, hh_runs>>
    /\ UNCHANGED <<is_recording, waiting_for_tts, clipboard_text,
                   recording_timeout_timer, timer, timeout_timers, rec_of,
                   presses, gestures, gesture_of, recordings, stop_log>>
    /\ UNCHANGED segmenterVars

\* Lines 138-151 on thread t.  Whether text-to-speech is running is the
\* state of the TTS object, an input here.
handle_hotkey(t) ==
    /\ tpc[t] = "handle_hotkey"
    /\ IF waiting_for_tts
       THEN /\ Return(t)
            /\ UNCHANGED waiting_for_tts
       ELSE /\ \E running_tts \in BOOLEAN :
                   waiting_for_tts' = IF running_tts THEN FALSE ELSE waiting_for_tts
            /\ tpc' = [tpc EXCEPT ![t] = IF is_recording THEN "stop_recording"
                                         ELSE "start_recording"]
            /\ UNCHANGED <<hotkey_timers, timeout_timers>>
    /\ UNCHANGED <<is_recording, clipboard_text, recording_timeout_timer, timer,
                   rec_of, presses, taps, gestures, gesture_of, recordings,
                   stop_log, hh_runs>>
    /\ UNCHANGED segmenterVars

\* Lines 51-56: the recording starts; the thread then sleeps HOTKEY_DELAY.
start_recording(t) ==
    /\ tpc[t] = "start_recording"
    /\ is_recording' = TRUE
    /\ recordings' = recordings + 1
    /\ rec_of' = [rec_of EXCEPT ![t] = recordings + 1]
    /\ tpc' = [tpc EXCEPT ![t] = "arm_timeout"]
    /\ UNCHANGED <<waiting_for_tts, clipboard_text, recording_timeout_timer, timer,
                   timeout_timers, hotkey_timers, presses, taps, gestures,
                   gesture_of, stop_log, hh_runs>>
    /\ UNCHANGED segmenterVars

\* Lines 58-59: the timeout timer of this recording is made and started; the
\* timer recording_timeout_timer held before is left as it is.
arm_timeout(t) ==
    /\ tpc[t] = "arm_timeout"
    /\ recording_timeout_timer' = rec_of[t]
    /\ tpc' = [tpc EXCEPT ![t] = "idle"]
    /\ hotkey_timers' = Returned(t, "hotkey", hotkey_timers)
    /\ timeout_timers' = [timeout_timers EXCEPT ![rec_of[t]] = "armed"]
    /\ UNCHANGED <<is_recording, waiting_for_tts, clipboard_text, timer, rec_of,
                   presses, taps, gestures, gesture_of, recordings, stop_log,
                   hh_runs>>
    /\ UNCHANGED segmenterVars

\* MAX_RECORDING_DURATION passes for a waiting timeout timer: its thread
\* calls stop_recording.
timeout_fires(r) ==
    /\ timeout_timers[r] = "armed"
    /\ timeout_timers' = [timeout_timers EXCEPT ![r] = "running"]
    /\ tpc' = [tpc EXCEPT ![TimeoutThread(r)] = "stop_recording"]
    /\ UNCHANGED <<is_recording, waiting_for_tts, clipboard_text,
                   recording_timeout_timer, timer, hotkey_timers, rec_of, presses,
                   taps, gestures, gesture_of, recordings, stop_log, hh_runs>>
    /\ UNCHANGED segmenterVars

\* Lines 65-66: the timer held in recording_timeout_timer is cancelled.
stop_recording(t) ==
    /\ tpc[t] = "stop_recording"
    /\ timeout_timers' =
           IF recording_timeout_timer # 0
              /\ is_alive(timeout_timers[recording_timeout_timer])
           THEN cancel(timeout_timers, recording_timeout_timer)
           ELSE timeout_timers
    /\ tpc' = [tpc EXCEPT ![t] = "if_is_recording"]
    /\ UNCHANGED <<is_recording, waiting_for_tts, clipboard_text,
                   recording_timeout_timer, timer, hotkey_timers, rec_of, presses,
                   taps, gestures, gesture_of, recordings, stop_log, hh_runs>>
    /\ UNCHANGED segmenterVars

\* Line 67: the guard of the body; line 68 then starts the thread of the
\* end sound.
if_is_recording(t) ==
    /\ tpc[t] = "if_is_recording"
    /\ IF is_recording
       THEN /\ tpc' = [tpc EXCEPT ![t] = "stop_body"]
            /\ UNCHANGED <<hotkey_timers, timeout_timers>>
       ELSE Return(t)
    /\ UNCHANGED <<is_recording, waiting_for_tts, clipboard_text,
                   recording_timeout_timer, timer, rec_of, presses, taps, gestures,
                   gesture_of, recordings, stop_log, hh_runs>>
    /\ UNCHANGED segmenterVars

\* Lines 69-72: the guarded body stops the recording that is running, the
\* one started last.
stop_body(t) ==
    /\ tpc[t] = "stop_body"
    /\ is_recording' = FALSE
    /\ waiting_for_tts' = TRUE
    /\ stop_log' = Append(stop_log, [thread |-> t, recording |-> recordings])
    /\ tpc' = [tpc EXCEPT ![t] = "handle"]
    /\ UNCHANGED <<clipboard_text, recording_timeout_timer, timer, timeout_timers,
                   hotkey_timers, rec_of, presses, taps, gestures, gesture_of,
                   recordings, hh_runs>>
    /\ UNCHANGED segmenterVars

\* Lines 74-86: a recording that is too short is dropped; otherwise it is
\* transcribed and handle_response (lines 113-136) uses up clipboard_text,
\* unless the transcription raises.  waiting_for_tts is reset on every path.
handle(t) ==
    /\ tpc[t] = "handle"
    /\ \E handled \in BOOLEAN :
           clipboard_text' = IF handled THEN FALSE ELSE clipboard_text
    /\ waiting_for_tts' = FALSE
    /\ Return(t)
    /\ UNCHANGED <<is_recording, recording_timeout_timer, timer, rec_of, presses,
                   taps, gestures, gesture_of, recordings, stop_log, hh_runs>>
    /\ UNCHANGED segmenterVars

\* Lines 99-111, the cancel hotkey handled by the keyboard listener.
cancel_recording ==
    /\ tpc[KB] = "idle"
    /\ is_recording' = FALSE
    /\ UNCHANGED <<waiting_for_tts, clipboard_text, recording_timeout_timer, timer,
                   timeout_timers, hotkey_timers, tpc, rec_of, presses, taps,
                   gestures, gesture_of, recordings, stop_log, hh_runs>>
    /\ UNCHANGED segmenterVars

RecorderNext ==
    \/ handle_hotkey_wrapper
    \/ HotkeyTimerElapses
    \/ cancel_recording
    \/ \E r \in 1..MaxPresses : timeout_fires(r)
    \/ \E t \in Threads : handle_hotkey(t)
    \/ \E t \in Threads : start_recording(t)
    \/ \E t \in Threads : arm_timeout(t)
    \/ \E t \in Threads : stop_recording(t)
    \/ \E t \in Threads : if_is_recording(t)
    \/ \E t \in Threads : stop_body(t)
    \/ \E t \in Threads : handle(t)

\* Runs of the Recorder over at most MaxPresses presses of the record hotkey,
\* with no response being segmented.
RecorderSpec == InitWith({<<>>}) /\ [][RecorderNext]_vars

RecorderTypeOK ==
    /\ is_recording \in BOOLEAN /\ waiting_for_tts \in BOOLEAN
    /\ clipboard_text \in BOOLEAN
    /\ recording_timeout_timer \in 0..MaxPresses /\ timer \in 0..MaxPresses
    /\ timeout_timers \in [1..MaxPresses -> TimerStates]
    /\ hotkey_timers \in [1..MaxPresses -> TimerStates]
    /\ presses \in 0..MaxPresses /\ taps \in 0..2
    /\ gestures \in 0..presses /\ recordings \in 0..MaxPresses

\* ------------------------------------------------------------- claims ---
\* The finished run: the generator has returned after line 158.
Done == pc = "done"

\* The indices of the full_response events yielded so far.
FullIdx == {i \in DOMAIN events : events[i].kind = "full_response"}

\* The events the generator yields when the whole input arrives as one chunk.
OneChunkEvents(s) == RunChunks(Fresh, IF s = <<>> THEN <<>> ELSE <<s>>).events

\* C1: for every input and every split of it into non-empty chunks, the
\* generator yields the same (kind, text) events as for the input fed as one
\* single chunk.
C1_ChunkingEquivalence == Done => events = OneChunkEvents(input)

\* C2: a full_response event is yielded exactly once if the trimmed
\* concatenation of the chunks is non-empty and never otherwise; it is the
\* last event and carries the trimmed concatenation of all chunks.
C2_FullResponseOnce ==
    IF Done /\ Strip(input) # <<>>
    THEN /\ FullIdx = {Len(events)}
         /\ events[Len(events)].text = Strip(input)
    ELSE FullIdx = {}

\* A finished run over several chunks of an input with a marker and a fence,
\* whose last event is the full_response.
C2_Witness ==
    /\ Done
    /\ Contains(input, clip_start_marker) /\ Contains(input, Fence)
    /\ Len(events) >= 2
    /\ FullIdx = {Len(events)}
    /\ Strip(input) # input

\* The 0-based positions at which d occurs in s.
Occurrences(s, d) ==
    {i \in 0..(Len(s) - Len(d)) : SubSeq(s, i + 1, i + Len(d)) = d}

\* The events of a text without delimiters: its sentences, cut where the
\* pattern sentence_endings matches, then the rest, each trimmed, blanks
\* left out.
PlainEvents(s) == FlushStep(ExtractLoop([Fresh EXCEPT !.buffer = s])).events

\* A text holds a sentence boundary between two of its non-blank characters.
HasInnerBoundary(s) == MatchEnd(Strip(s)) >= 0

SentenceIfAny(s) == IF Strip(s) # <<>> THEN <<Sentence(Strip(s))>> ELSE <<>>
FullIfAny(s) == IF Strip(s) # <<>> THEN <<FullResponse(Strip(s))>> ELSE <<>>

\* s is pre + '```' + code + '```' + post with no other delimiter.
IsFenceForm(s) ==
    /\ Occurrences(s, clip_start_marker) = {}
    /\ Occurrences(s, clip_end_marker) = {}
    /\ Cardinality({i \in DOMAIN s : s[i] = Backquote}) = 2 * Len(Fence)
    /\ Contains(s, Fence)
    /\ Contains(PartitionPost(s, Fence), Fence)
FencePre(s) == PartitionPre(s, Fence)
FenceCode(s) == PartitionPre(PartitionPost(s, Fence), Fence)
FencePost(s) == PartitionPost(PartitionPost(s, Fence), Fence)

\* C3: for an input pre + '```' + code + '```' + post with no other
\* delimiter (pre being one sentence), under every chunking, the events are
\* sentence(trimmed pre) if non-blank, clipboard_text('```' + trimmed code +
\* '```'), sentence('Code saved to the clipboard.'), the sentences of post,
\* then full_response with the whole trimmed input.
C3_FenceRoundTrip ==
    (Done /\ IsFenceForm(input) /\ ~HasInnerBoundary(FencePre(input))) =>
        events = SentenceIfAny(FencePre(input))
                 \o <<ClipboardText(Fence \o Strip(FenceCode(input)) \o Fence),
                      Sentence(Confirmation)>>
                 \o PlainEvents(FencePost(input))
                 \o FullIfAny(input)

\* s is pre + markerStart + payload + markerEnd + post with no other delimiter.
IsMarkerForm(s) ==
    /\ Cardinality(Occurrences(s, clip_start_marker)) = 1
    /\ Cardinality(Occurrences(s, clip_end_marker)) = 1
    /\ \A i \in DOMAIN s : s[i] # Backquote
    /\ Find(s, clip_start_marker) + Len(clip_start_marker) <= Find(s, clip_end_marker)
MarkerPre(s) == PartitionPre(s, clip_start_marker)
MarkerPayload(s) == PartitionPre(PartitionPost(s, clip_start_marker), clip_end_marker)
MarkerPost(s) == PartitionPost(PartitionPost(s, clip_start_marker), clip_end_marker)

\* The event sequence C4 names.
MarkerRoundTripEvents(s) ==
    SentenceIfAny(MarkerPre(s))
    \o <<ClipboardText(Strip(MarkerPayload(s)))>>
    \o PlainEvents(MarkerPost(s))
    \o FullIfAny(s)

C5_ModesExclusive == ~(in_marker /\ in_backticks)

\* Fence detection has run on a buffer that holds a fence while a marker span
\* is open, and marker detection on a buffer that holds a start marker while
\* a fence is open.
C5_Witness ==
    \/ pc = "extract" /\ in_marker /\ Contains(buffer, Fence)
    \/ pc = "fence" /\ in_backticks /\ Contains(buffer, clip_start_marker)

\* s without its whitespace characters.
RECURSIVE NoWs(_)
NoWs(s) ==
    IF s = <<>> THEN <<>>
    ELSE IF Head(s) \in Whitespace THEN NoWs(Tail(s))
    ELSE <<Head(s)>> \o NoWs(Tail(s))

\* s without the characters at the (1-based) positions in gone.
RECURSIVE Without(_, _, _)
Without(s, gone, i) ==
    IF i > Len(s) THEN <<>>
    ELSE (IF i \in gone THEN <<>> ELSE <<s[i]>>) \o Without(s, gone, i + 1)

\* The payloads of the sentence and clipboard_text events whose index is in
\* idx, concatenated in emission order, from event i on.
RECURSIVE Payloads(_, _)
Payloads(idx, i) ==
    IF i > Len(events) THEN <<>>
    ELSE (IF i \in idx THEN events[i].text ELSE <<>>) \o Payloads(idx, i + 1)

SpokenOrCopied ==
    {i \in DOMAIN events : events[i].kind \in {"sentence", "clipboard_text"}}
Confirmations == {i \in DOMAIN events : trace[i].site = "confirm"}

\* C6 as stated: the payloads of all sentence and clipboard_text events,
\* concatenated in emission order, whitespace ignored, are the input.
C6_Reconstruction_Stated ==
    Done => NoWs(Payloads(SpokenOrCopied, 1)) = NoWs(input)

\* Every dropped position lies in an occurrence of a marker string in input.
DroppedAreMarkers ==
    \A p \in dropped :
        \E d \in {clip_start_marker, clip_end_marker} :
            \E o \in Occurrences(input, d) : o + 1 <= p /\ p <= o + Len(d)

\* The positions of an opening fence that is never yielded: the stream ended
\* inside the fence with nothing but whitespace after it.
LostFence ==
    IF in_backticks /\ Strip(buffer) = <<>>
    THEN (Len(input) - Len(buffer) - Len(Fence) + 1)..(Len(input) - Len(buffer))
    ELSE {}

\* C6 as amended: the payloads of the sentence and clipboard_text events other
\* than the confirmation sentences, concatenated in emission order,
\* whitespace ignored, are the input without the marker strings that opened
\* or closed a marker span and without an opening fence that only whitespace
\* follows up to the end of the stream.
C6_Reconstruction ==
    Done => /\ NoWs(Payloads(SpokenOrCopied \ Confirmations, 1))
                = NoWs(Without(input, dropped \cup LostFence, 1))
            /\ DroppedAreMarkers
            /\ \A p \in LostFence : input[p] = Backquote

\* A finished run that dropped both marker strings and closed a fence.
C6_Witness ==
    /\ Done
    /\ Cardinality(dropped) = Len(clip_start_marker) + Len(clip_end_marker)
    /\ \E i \in DOMAIN trace : trace[i].site = "fence_close"
    /\ Confirmations # {}

\* The characters of input that event i was cut from.
Section(i) == SubSeq(input, trace[i].at + 1, trace[i].at + trace[i].len)

\* Event i carries the text found at the place of the input it is recorded for.
TextIsFromInput(i) ==
    CASE trace[i].site \in {"pre_marker", "pre_fence", "extract"} ->
            events[i] = Sentence(Strip(Section(i)))
      [] trace[i].site = "marker_close" ->
            events[i] = ClipboardText(Strip(Section(i)))
      [] trace[i].site = "fence_close" ->
            events[i] = ClipboardText(Fence \o Strip(Section(i)) \o Fence)
      [] trace[i].site = "flush" ->
            events[i] \in {Sentence(Strip(Section(i))), ClipboardText(Strip(Section(i))),
                           ClipboardText(Fence \o Strip(Section(i)))}
      [] trace[i].site = "confirm" ->
            i > 1 /\ trace[i - 1].site = "fence_close" /\ events[i] = Sentence(Confirmation)
      [] trace[i].site = "full" ->
            events[i] = FullResponse(Strip(input))

\* C7: sentence and clipboard_text events are emitted in the order in which
\* their text occurs in the input (the confirmation sentence, which has no
\* text in the input, directly after the clipboard_text of its fence), and
\* full_response comes after all of them.
C7_EmissionOrder ==
    /\ \A i \in DOMAIN events : TextIsFromInput(i)
    /\ \A i, j \in DOMAIN events :
          i < j =>
            /\ events[i].kind # "full_response"
            /\ (i \notin Confirmations /\ j \notin Confirmations /\ trace[j].site # "full") =>
                  /\ trace[i].at < trace[j].at
                  /\ trace[i].at + trace[i].len <= trace[j].at

\* A finished run that yielded a sentence, a marker payload, a fenced block
\* with its confirmation and the full response.
C7_Witness ==
    /\ Done
    /\ \E i, j, k \in DOMAIN events :
          /\ i < j /\ j + 1 < k
          /\ trace[i].site = "marker_close"
          /\ trace[j].site = "fence_close"
          /\ trace[k].site = "full"

\* C8: at end of stream, if the trimmed buffer is non-blank exactly one flush
\* event is emitted, before full_response: clipboard_text('```' + trimmed
\* buffer) if in_backticks, clipboard_text(trimmed buffer) if in_marker, and
\* sentence(trimmed buffer) otherwise; if it is blank no flush event is
\* emitted.  (Lines 149-158 leave buffer and the two modes as they are.)
C8_FlushPolicy ==
    pc \in {"full", "done"} =>
        LET b == Strip(buffer)
            flushed == {i \in DOMAIN trace : trace[i].site = "flush"}
            last == IF pc = "full" THEN Len(events) ELSE Len(events) - 1
        IN  IF b = <<>> THEN flushed = {}
            ELSE /\ flushed = {last}
                 /\ last >= 1
                 /\ events[last] =
                        IF in_backticks THEN ClipboardText(Fence \o b)
                        ELSE IF in_marker THEN ClipboardText(b)
                        ELSE Sentence(b)
                 /\ pc = "done" => events[Len(events)].kind = "full_response"

\* The stream ended inside an open marker span, after earlier events, with
\* text and surrounding whitespace in the buffer, and the flush has run.
C8_Witness ==
    /\ pc = "full"
    /\ in_marker
    /\ Strip(buffer) # <<>>
    /\ buffer # Strip(buffer)
    /\ Len(events) >= 2

\* C9: no sentence event and no full_response event carries an empty or
\* whitespace-only payload; the only event with an empty payload is the
\* clipboard_text yielded when clip_end_marker closes a marker span.
C9_NoBlankPayloads ==
    \A i \in DOMAIN events :
        /\ events[i].kind \in {"sentence", "full_response"} => Strip(events[i].text) # <<>>
        /\ Strip(events[i].text) = <<>> =>
              /\ trace[i].site = "marker_close"
              /\ events[i] = ClipboardText(<<>>)

\* A marker span of whitespace only was closed and yielded an empty
\* clipboard_text, in a run that also yielded a sentence.
C9_Witness ==
    /\ Done
    /\ \E i \in DOMAIN events :
          /\ events[i] = ClipboardText(<<>>)
          /\ trace[i].len > 0
    /\ \E i \in DOMAIN events : events[i].kind = "sentence"

\* C10: if chunks_stream raises, the generator does not catch it and yields
\* nothing further: no flush event for the text in buffer and no
\* full_response event.
C10_SourceFailureEndsRun ==
    failed =>
        /\ pc = "raised"
        /\ FullIdx = {}
        /\ \A i \in DOMAIN trace : trace[i].site \notin {"flush", "full"}

\* The source raised before its natural end, after events were yielded and
\* with non-blank text left in buffer.
C10_Witness ==
    /\ failed
    /\ rest # <<>>
    /\ events # <<>>
    /\ Strip(buffer) # <<>>

\* s holds none of the three delimiters.
NoDelimiter(s) ==
    /\ ~Contains(s, clip_start_marker)
    /\ ~Contains(s, clip_end_marker)
    /\ ~Contains(s, Fence)

\* The first delimiter of s is the start marker (resp. the fence).
OpensWithMarker(s) ==
    /\ Contains(s, clip_start_marker)
    /\ NoDelimiter(PartitionPre(s, clip_start_marker))
OpensWithFence(s) ==
    /\ Contains(s, Fence)
    /\ NoDelimiter(PartitionPre(s, Fence))

\* The text after the first start marker (resp. fence) of s, and the text
\* after the delimiter that closes it.
InMarkerSpan(s) == PartitionPost(s, clip_start_marker)
AfterMarkerSpan(s) == PartitionPost(InMarkerSpan(s), clip_end_marker)
InFenceSpan(s) == PartitionPost(s, Fence)
AfterFenceSpan(s) == PartitionPost(InFenceSpan(s), Fence)

\* The markers and fences of s are properly paired and not nested: s is a
\* text without delimiters, or it opens a span that is closed by the delimiter
\* of its own kind with no delimiter in between, and what follows is paired.
RECURSIVE ProperlyPaired(_)
ProperlyPaired(s) ==
    IF NoDelimiter(s) THEN TRUE
    ELSE IF OpensWithMarker(s)
    THEN /\ Contains(InMarkerSpan(s), clip_end_marker)
         /\ NoDelimiter(PartitionPre(InMarkerSpan(s), clip_end_marker))
         /\ ProperlyPaired(AfterMarkerSpan(s))
    ELSE IF OpensWithFence(s)
    THEN /\ Contains(InFenceSpan(s), Fence)
         /\ NoDelimiter(PartitionPre(InFenceSpan(s), Fence))
         /\ ProperlyPaired(AfterFenceSpan(s))
    ELSE FALSE

\* The 1-based positions of a properly paired s, shifted by off, that lie in
\* a span: from the first character of an opening delimiter to the last
\* character of the delimiter that closes it.
RECURSIVE SpanPositions(_, _)
SpanPositions(s, off) ==
    IF NoDelimiter(s) THEN {}
    ELSE LET after == IF OpensWithMarker(s) THEN AfterMarkerSpan(s) ELSE AfterFenceSpan(s)
             pre == IF OpensWithMarker(s) THEN PartitionPre(s, clip_start_marker)
                    ELSE PartitionPre(s, Fence)
             stop == Len(s) - Len(after)
         IN  ((off + Len(pre) + 1)..(off + stop)) \cup SpanPositions(after, off + stop)

\* The input positions of the non-blank characters event i was cut from.
SpokenPositions(i) ==
    {p \in (trace[i].at + 1)..(trace[i].at + trace[i].len) : input[p] \notin Whitespace}

\* The sentence events that carry text of the input.
SpokenText == {i \in DOMAIN events : events[i].kind = "sentence"} \ Confirmations

\* C11: for an input whose markers and fences are properly paired and not
\* nested, under any chunking, no sentence payload contains markerStart,
\* markerEnd or '```', or text that lies between an opening delimiter and its
\* closing delimiter.
C11_SpansNeverSpoken ==
    ProperlyPaired(input) =>
        \A i \in SpokenText :
            /\ NoDelimiter(events[i].text)
            /\ SpokenPositions(i) \cap SpanPositions(input, 0) = {}

\* s is pre + markerStart + x + markerEnd + post where x holds a fence and no
\* marker, and pre and post hold no delimiter.
MarkerSpanBody(s) == PartitionPre(InMarkerSpan(s), clip_end_marker)
MarkerSpanWithFence(s) ==
    /\ OpensWithMarker(s)
    /\ Contains(InMarkerSpan(s), clip_end_marker)
    /\ Contains(MarkerSpanBody(s), Fence)
    /\ ~Contains(MarkerSpanBody(s), clip_start_marker)
    /\ NoDelimiter(AfterMarkerSpan(s))

\* s is pre + '```' + y + '```' + post where y holds a marker string, and pre
\* and post hold no delimiter.
FenceSpanBody(s) == PartitionPre(InFenceSpan(s), Fence)
FenceSpanWithMarker(s) ==
    /\ OpensWithFence(s)
    /\ Contains(InFenceSpan(s), Fence)
    /\ \/ Contains(FenceSpanBody(s), clip_start_marker)
       \/ Contains(FenceSpanBody(s), clip_end_marker)
    /\ NoDelimiter(AfterFenceSpan(s))

\* A '```' between markerStart and markerEnd opens no fence and is part of the
\* clipboard_text of the marker span.
FenceInertInMarkerSpan ==
    MarkerSpanWithFence(input) =>
        /\ ~in_backticks
        /\ \A i \in DOMAIN trace : trace[i].site \notin {"pre_fence", "fence_close", "confirm"}
        /\ Done => \E i \in DOMAIN trace :
                      /\ trace[i].site = "marker_close"
                      /\ events[i] = ClipboardText(Strip(MarkerSpanBody(input)))

\* A marker string between two '```' opens or closes no marker span and is
\* part of the clipboard_text of the fence.
MarkerInertInFenceSpan ==
    FenceSpanWithMarker(input) =>
        /\ ~in_marker
        /\ dropped = {}
        /\ Done => \E i \in DOMAIN events :
                      /\ events[i].kind = "clipboard_text"
                      /\ Contains(events[i].text, Fence \o Strip(FenceSpanBody(input)))

\* C12: delimiters of one kind are inert inside a span of the other kind,
\* under every chunking.
C12_ForeignDelimitersInert == FenceInertInMarkerSpan /\ MarkerInertInFenceSpan

\* s holds a sentence boundary: a '.', '!' or '?' followed by whitespace, or
\* a newline.
HoldsBoundary(s) ==
    \/ \E i \in 1..(Len(s) - 1) : s[i] \in SentencePunct /\ s[i + 1] \in Whitespace
    \/ \E i \in 1..Len(s) : s[i] = NL

\* C13: after a chunk has been processed with the generator in neither marker
\* nor fence mode, the retained buffer holds no sentence boundary: every
\* sentence completed so far was yielded before the next chunk is pulled.
C13_NoBoundaryRetained ==
    (pc = "next" /\ ~in_marker /\ ~in_backticks) => ~HoldsBoundary(buffer)

\* A chunk that completed a sentence and began the next one has been
\* processed, and more chunks are to come.
C13_Witness ==
    /\ pc = "next"
    /\ ~in_marker /\ ~in_backticks
    /\ buffer # <<>>
    /\ rest # <<>>
    /\ events # <<>>
    /\ \A i \in DOMAIN trace : trace[i].site = "extract"

\* t is the tail of s.
IsSuffix(t, s) == Len(t) <= Len(s) /\ SubSeq(s, Len(s) - Len(t) + 1, Len(s)) = t

\* The chunks delivered so far, concatenated.
Consumed == SubSeq(input, 1, Len(input) - Len(rest))

\* C14: full_response is the concatenation of all chunks consumed so far and
\* buffer is a suffix of full_response: no step puts into buffer text that is
\* not the tail of the received input.
C14_BufferIsTail ==
    /\ full_response = Consumed
    /\ IsSuffix(buffer, full_response)

\* Between two chunks, after events were yielded, buffer is a proper,
\* non-empty tail of what was received.
C14_Witness ==
    /\ pc = "next"
    /\ rest # <<>>
    /\ events # <<>>
    /\ buffer # <<>>
    /\ buffer # full_response
    /\ dropped # {}

\* C15: for an input without delimiter and without sentence boundary, under
\* every chunking, no event is emitted before the stream ends; the flush
\* yields one sentence with the trimmed whole input, followed by
\* full_response, or nothing at all if the input is whitespace only.
C15_OneSentenceAtFlush ==
    (NoDelimiter(input) /\ ~HoldsBoundary(input) /\ ~failed) =>
        /\ pc \notin {"full", "done"} => events = <<>>
        /\ pc = "full" => events = SentenceIfAny(input)
        /\ Done => events = SentenceIfAny(input) \o FullIfAny(input)

\* A finished run over a text of several words, with whitespace around it,
\* that yielded its one sentence and the full response.
C15_Witness ==
    /\ Done
    /\ NoDelimiter(input) /\ ~HoldsBoundary(input)
    /\ Len(events) = 2
    /\ Len(Strip(input)) >= 3
    /\ Strip(input) # input
    /\ \E p \in DOMAIN input : input[p] \in SentencePunct

\* The generator is driven to its end: whoever iterates it keeps asking for
\* the next event, and the chunk source delivers, ends or raises.
FairInit == InitWith(InputsUpTo(MaxFairTokens))
FairSpec == FairInit /\ [][Next]_vars /\ WF_vars(Next)

\* The run is over: the generator returned, or the source raised.
Ended == Done \/ failed

\* C16: each turn of the sentence loop removes at least one character from
\* buffer, and for every finite chunk stream the flush runs after the last
\* chunk and the event sequence ends.
C16_Terminates ==
    /\ [][(pc = "extract" /\ pc' = "extract") => Len(buffer') < Len(buffer)]_vars
    /\ [][(pc = "flush") => (rest = <<>> /\ pc' = "full")]_vars
    /\ <>Ended

\* The sentence loop has turned at least twice (its yielded sentence starts
\* after an earlier cut) and the run is over.
C16_Witness ==
    /\ Done
    /\ NoDelimiter(input)
    /\ \E i \in DOMAIN trace : trace[i].site = "extract" /\ trace[i].at > 0

\* ------------------------------------------------------ Recorder claims ---
\* C17: each started recording is stopped and handled at most once: when the
\* thread of its timeout timer and a hotkey press (on the keyboard listener
\* or on the thread of the hotkey timer) both call stop_recording for the
\* same recording, the guarded body runs in only one of the two calls.
C17_StoppedAtMostOnce ==
    \A i, j \in DOMAIN stop_log :
        (/\ stop_log[i].recording = stop_log[j].recording
         /\ stop_log[i].thread = TimeoutThread(stop_log[i].recording))
            => stop_log[j].thread[1] = "timeout"

\* C18: a recording is stopped from a timeout timer only by the timer armed
\* for that same recording; the timer of an earlier recording, cancelled by
\* cancel_recording or replaced by a new start_recording, never stops a
\* later recording when it fires.
C18_OwnTimeoutOnly ==
    \A i \in DOMAIN stop_log :
        stop_log[i].thread[1] = "timeout"
            => stop_log[i].thread = TimeoutThread(stop_log[i].recording)

\* A gesture is over when a later gesture has begun or 0.2 s have passed
\* since its last press.
GestureOver(g) == g < gestures \/ taps = 0

\* C19: every gesture on the record hotkey, a single press or a double tap,
\* makes handle_hotkey run exactly once, whatever gestures came before: never
\* twice, and once by the time the gesture is over.
C19_OnceEachGesture ==
    \A g \in 1..gestures :
        /\ hh_runs[g] <= 1
        /\ GestureOver(g) => hh_runs[g] = 1

=============================================================================
